---- MODULE Spec2Model ----
(***************************************************************************)
(* Self Kernel: the intent stage machine (fsm.js), the confidence          *)
(* propagator, the execution staging queue (orchestrator.js) and the       *)
(* parameter learner (learning.js).                                        *)
(*                                                                         *)
(* Numbers: confidences, evidence weights and thresholds are held in       *)
(* hundredths (0.95 is 95), products are rounded down.  Time is counted in *)
(* whole days.                                                             *)
(***************************************************************************)
EXTENDS Integers, Sequences, FiniteSets, TLC

\* ---------------------------------------------------------------- bounds
MaxIntents == 2
MaxRelations == 1
MaxTransitions == 3
MaxDays == 2
MaxRewards == 1
MaxStagingRewards == 11
MaxIngests == 4
MaxPending == 1
MaxCycleEdges == 2
MaxCycleTransitions == 4
MaxRunning == 3

\* ------------------------------------------------------- program constants
\* one unit of confidence is 1/Scale
Scale == 100
DEFAULT_PRIOR == 10
FORCED_DECISION == 95
DECAY_PER_DAY == 95
PRUNE_BELOW == 5
EXECUTE_AT == 95
REFINE_AT == 70
DEFAULT_EDGE_WEIGHT == 50
INITIAL_THRESHOLD == 95
ALPHA == 1
THRESHOLD_FLOOR == 85
THRESHOLD_CEILING == 99
DEFAULT_ANOMALY_THRESHOLD == 200
MIN_SAMPLES == 3
FIXED_NOVEL_SCORE == 9900
PRIOR_LENGTH_MEAN == 5000
PRIOR_LENGTH_VARIANCE == 10000
PRIOR_HOUR_MEAN == 1200
PRIOR_HOUR_VARIANCE == 1200
LENGTH_SHARE == 70
HOUR_SHARE == 30
HOURS_PER_DAY == 24
EXTRACTED_PRIOR == 30
STORED_DECAY_RATE == 5

STATES == {"EXPLORATION", "REFINING", "REFUTED", "DECISION"}

\* an optional input that was not supplied (undefined)
Absent == -1

\* inputs of the bounded check
Precisions == {Absent, 0, 5}
StageHints == {"absent", "REFUTED"}
EvidenceWeights == {0, 90}
EdgeWeights == {Absent, 100}

VARIABLES
    intents,             \* the 'intents' collection: id -> record
    relations,           \* the 'relations' collection, in directory order
    executionThreshold,  \* kernel-meta parameters.executionThreshold
    executionQueue,      \* orchestrator.js: the in-process outbox
    inFlight,            \* enqueueForExecution calls started and not yet finished
    nextTaskId,          \* task ids handed out so far
    now,                 \* Date.now(), in whole days
    rewards,             \* processReward calls so far
    last,                \* the most recent top-level call and what it returned
    baseline,            \* the 'baseline' record b-metrics-001, or the prior if absent
    anomalyThreshold,    \* kernel-meta parameters.anomalyThreshold
    pendingIngests,      \* processRawInput calls that have scored their text
    ingested,            \* the inputs the baseline was updated with, and their route
    baselineDir,         \* whether the directory database/baseline exists
    persons,             \* the 'persons' collection: the name of each record
    running              \* stage-machine calls of interleaving requests, step by step

\* the state of the anomaly gate
anomalyVars == <<baseline, anomalyThreshold, pendingIngests, ingested, baselineDir, persons>>

vars == <<intents, relations, executionThreshold, executionQueue, inFlight, nextTaskId,
          now, rewards, last, baseline, anomalyThreshold, pendingIngests, ingested,
          baselineDir, persons, running>>

\* ------------------------------------------------------------ arithmetic
Max(a, b) == IF a >= b THEN a ELSE b
Min(a, b) == IF a <= b THEN a ELSE b

RECURSIVE IntPow(_, _)
IntPow(b, n) == IF n = 0 THEN 1 ELSE b * IntPow(b, n - 1)

\* x || d for a number: 0, NaN and undefined are falsy
OrDefault(x, d) == IF x = Absent \/ x = 0 THEN d ELSE x

\* ------------------------------------------------------------- storage
\* storage.getById answers null for a missing file
NoIntent == [stage |-> "NULL", confidence |-> 0, stageHistory |-> <<>>, updatedAt |-> 0]

getById(col, id) == IF id \in DOMAIN col THEN col[id] ELSE NoIntent

\* storage.update: merge the given object over the stored one, stamp updatedAt
update(col, id, data) ==
    IF id \in DOMAIN col THEN [col EXCEPT ![id] = [data EXCEPT !.updatedAt = now]] ELSE col

\* ----------------------------------------------------------- stage machine
TRANSITIONS ==
    [s \in STATES |->
        CASE s = "EXPLORATION" -> {"REFINING", "REFUTED", "DECISION"}
          [] s = "REFINING" -> {"EXPLORATION", "DECISION", "REFUTED"}
          [] s = "REFUTED" -> {"EXPLORATION"}
          [] s = "DECISION" -> {"REFINING"}]

\* variant: the table of the earlier stage machine, without EXPLORATION -> DECISION
validateTransitionLegacy(currentStage, newStage) ==
    IF currentStage = newStage THEN TRUE
    ELSE IF currentStage = "EXPLORATION" THEN newStage \in {"REFINING", "REFUTED"}
    ELSE IF currentStage \in DOMAIN TRANSITIONS THEN newStage \in TRANSITIONS[currentStage]
    ELSE FALSE

\* variant: no validation at all
validateTransitionAny(currentStage, newStage) == TRUE

validateTransition(currentStage, newStage) ==
    IF currentStage = newStage THEN TRUE
    ELSE IF currentStage \in DOMAIN TRANSITIONS THEN newStage \in TRANSITIONS[currentStage]
    ELSE FALSE

\* variant: only the DECISION bound is forced
forcedConfidenceDecisionOnly(newState, confidence) ==
    IF newState = "DECISION" THEN Max(confidence, FORCED_DECISION) ELSE confidence

\* forced confidence bounds for final states
forcedConfidence(newState, confidence) ==
    IF newState = "DECISION" THEN Max(confidence, FORCED_DECISION)
    ELSE IF newState = "REFUTED" THEN 0
    ELSE confidence

\* variant: the stage is changed and the history left as it was
pushHistoryNot(stageHistory, newState) == stageHistory

\* stageHistory.push({stage, timestamp, note}): the entry's stage is kept
pushHistory(stageHistory, newState) == Append(stageHistory, newState)

\* (Date.now() - lastUpdate) / one day
daysPassed(intent) == now - intent.updatedAt

\* confidence *= Math.pow(0.95, daysPassed)
decayed(confidence, days) == (confidence * IntPow(DECAY_PER_DAY, days)) \div IntPow(Scale, days)

\* variant: evidence added to the prior without saturation
posteriorAdditive(prior, precisionWeight) == prior + precisionWeight

\* variant: the evidence term alone, the prior dropped
posteriorNoPrior(prior, precisionWeight) == (precisionWeight * (Scale - prior)) \div Scale

\* posterior = prior + evidence * (1 - prior)
posterior(prior, precisionWeight) == prior + ((precisionWeight * (Scale - prior)) \div Scale)

\* data.stage || STATES.EXPLORATION
stageOrDefault(stage) == IF stage = "absent" THEN "EXPLORATION" ELSE stage

\* the record createIntent has storage.create write
newIntent(stage, precision) ==
    [stage |-> stageOrDefault(stage),
     confidence |-> OrDefault(precision, DEFAULT_PRIOR),
     stageHistory |-> << stageOrDefault(stage) >>,
     updatedAt |-> now]

\* A call in progress: the collection as written so far, the enqueueForExecution
\* calls it started, the error it threw (if any), the object it returns, and how
\* many times transitionState and addEvidence were entered on its behalf.
Call(col) ==
    [intents |-> col, started |-> <<>>, err |-> "none", ret |-> NoIntent,
     transitions |-> 0, evidences |-> 0]

\* one more entry into transitionState ("transitions") or addEvidence ("evidences")
Entered(w, counter) == [w EXCEPT ![counter] = @ + 1]

Terminal(stage) == stage = "DECISION" \/ stage = "REFUTED"

RECURSIVE transitionState(_, _, _)
RECURSIVE evaluateConfidence(_, _)
RECURSIVE addEvidence(_, _, _)
RECURSIVE propagateWeightUpwards(_, _)
RECURSIVE addEvidenceToParents(_, _, _, _)

\* variant: the stage is written before the transition is validated
transitionStateLateCheck(w, intentId, newState) ==
    LET intent == getById(w.intents, intentId)
    IN  IF intent = NoIntent THEN [w EXCEPT !.err = "NotFound", !.ret = NoIntent]
        ELSE
            LET moved == [intent EXCEPT
                            !.stage = newState,
                            !.stageHistory = pushHistory(@, newState),
                            !.confidence = forcedConfidence(newState, @)]
                w1 == [w EXCEPT !.intents = update(@, intentId, moved)]
                w2 == IF newState = "DECISION"
                      THEN [w1 EXCEPT !.started =
                                Append(@, [id |-> intentId, confidence |-> moved.confidence])]
                      ELSE w1
            IN  IF ~validateTransition(intent.stage, newState)
                THEN [w2 EXCEPT !.err = "InvalidTransition", !.ret = NoIntent]
                ELSE LET w3 == propagateWeightUpwards(w2, intentId)
                     IN  IF w3.err # "none" THEN w3 ELSE [w3 EXCEPT !.ret = moved]

\* variant: the orchestrator is not called on a DECISION transition
transitionStateNoHandoff(w, intentId, newState) ==
    LET intent == getById(w.intents, intentId)
    IN  IF intent = NoIntent THEN [w EXCEPT !.err = "NotFound", !.ret = NoIntent]
        ELSE IF ~validateTransition(intent.stage, newState)
        THEN [w EXCEPT !.err = "InvalidTransition", !.ret = NoIntent]
        ELSE
            LET moved == [intent EXCEPT
                            !.stage = newState,
                            !.stageHistory = pushHistory(@, newState),
                            !.confidence = forcedConfidence(newState, @)]
                w1 == [w EXCEPT !.intents = update(@, intentId, moved)]
                w3 == propagateWeightUpwards(w1, intentId)
            IN  IF w3.err # "none" THEN w3 ELSE [w3 EXCEPT !.ret = moved]

transitionState(w, intentId, newState) ==
    LET w0 == Entered(w, "transitions")
        intent == getById(w0.intents, intentId)
    IN  IF intent = NoIntent THEN [w0 EXCEPT !.err = "NotFound", !.ret = NoIntent]
        ELSE IF ~validateTransition(intent.stage, newState)
        THEN [w0 EXCEPT !.err = "InvalidTransition", !.ret = NoIntent]
        ELSE
            LET moved == [intent EXCEPT
                            !.stage = newState,
                            !.stageHistory = pushHistory(@, newState),
                            !.confidence = forcedConfidence(newState, @)]
                w1 == [w0 EXCEPT !.intents = update(@, intentId, moved)]
                w2 == IF newState = "DECISION"
                      THEN [w1 EXCEPT !.started =
                                Append(@, [id |-> intentId, confidence |-> moved.confidence])]
                      ELSE w1
                w3 == propagateWeightUpwards(w2, intentId)
            IN  IF w3.err # "none" THEN w3 ELSE [w3 EXCEPT !.ret = moved]

evaluateConfidence(w, intentId) ==
    LET intent == getById(w.intents, intentId)
    IN  IF intent = NoIntent THEN [w EXCEPT !.ret = NoIntent]
        ELSE IF Terminal(intent.stage) THEN [w EXCEPT !.ret = intent]
        ELSE
            LET aged == daysPassed(intent) > 1
                local == IF aged
                         THEN [intent EXCEPT !.confidence = decayed(@, daysPassed(intent))]
                         ELSE intent
                w1 == IF aged THEN [w EXCEPT !.intents = update(@, intentId, local)] ELSE w
            IN  IF local.confidence < PRUNE_BELOW /\ local.stage # "REFUTED"
                THEN transitionState(w1, intentId, "REFUTED")
                ELSE [w1 EXCEPT !.ret = local]

\* variant: the refinement threshold fires whatever the stage
addEvidenceAnyStage(w, intentId, precisionWeight) ==
    LET e == evaluateConfidence(Entered(w, "evidences"), intentId)
        intent == e.ret
    IN  IF e.err # "none" THEN e
        ELSE IF intent = NoIntent \/ Terminal(intent.stage) THEN e
        ELSE
            LET local == [intent EXCEPT !.confidence = posterior(@, precisionWeight)]
                w1 == [e EXCEPT !.intents = update(@, intentId, local)]
                w2 == IF local.confidence >= EXECUTE_AT /\ local.stage # "DECISION"
                      THEN transitionState(w1, intentId, "DECISION")
                      ELSE IF local.confidence >= REFINE_AT
                      THEN transitionState(w1, intentId, "REFINING")
                      ELSE w1
            IN  IF w2.err # "none" THEN w2 ELSE [w2 EXCEPT !.ret = local]

addEvidence(w, intentId, precisionWeight) ==
    LET e == evaluateConfidence(Entered(w, "evidences"), intentId)
        intent == e.ret
    IN  IF e.err # "none" THEN e
        ELSE IF intent = NoIntent \/ Terminal(intent.stage) THEN e
        ELSE
            LET local == [intent EXCEPT !.confidence = posterior(@, precisionWeight)]
                w1 == [e EXCEPT !.intents = update(@, intentId, local)]
                w2 == IF local.confidence >= EXECUTE_AT /\ local.stage # "DECISION"
                      THEN transitionState(w1, intentId, "DECISION")
                      ELSE IF local.confidence >= REFINE_AT /\ local.stage = "EXPLORATION"
                      THEN transitionState(w1, intentId, "REFINING")
                      ELSE w1
            IN  IF w2.err # "none" THEN w2 ELSE [w2 EXCEPT !.ret = local]

isParentRelation(r, childIntentId) ==
    r.targetType = "intent" /\ r.targetId = childIntentId /\ r.sourceType = "intent"

\* rel.weight || 0.5
edgeWeightOf(rel) == OrDefault(rel.weight, DEFAULT_EDGE_WEIGHT)

addEvidenceToParents(w, parentRelations, k, childConfidence) ==
    IF k > Len(parentRelations) \/ w.err # "none" THEN w
    ELSE addEvidenceToParents(
            addEvidence(w, parentRelations[k].sourceId,
                        (childConfidence * edgeWeightOf(parentRelations[k])) \div Scale),
            parentRelations, k + 1, childConfidence)

propagateWeightUpwards(w, childIntentId) ==
    LET e == evaluateConfidence(w, childIntentId)
        child == e.ret
    IN  IF e.err # "none" \/ child = NoIntent THEN e
        ELSE addEvidenceToParents(e,
                SelectSeq(relations, LAMBDA r : isParentRelation(r, childIntentId)),
                1, child.confidence)

\* ------------------------------------------------------------ the call log
\* what a caller sees of an intent object: its stage and its confidence
Seen(intent) == [stage |-> intent.stage, confidence |-> intent.confidence]

\* op, id, target, weight: the call (for createIntent: data.stage and
\* data.precision as given); days: the days since the intent's last
\* update when the call began; before: the stored intent when the call began;
\* evaluated: what addEvidence got from its evaluateConfidence;
\* err, ret: the error thrown or the object returned; reward, value: the reward
\* type given to processReward and the executionThreshold it returned;
\* transitions, evidences: how many times the call, top level included, entered
\* transitionState and addEvidence.
NoCall ==
    [op |-> "none", id |-> 0, target |-> "-", weight |-> 0, days |-> 0, err |-> "none",
     before |-> Seen(NoIntent), evaluated |-> Seen(NoIntent), ret |-> Seen(NoIntent),
     reward |-> 0, value |-> 0, transitions |-> 0, evidences |-> 0]

DaysBefore(intentId) ==
    IF intentId \in DOMAIN intents THEN daysPassed(intents[intentId]) ELSE 0

\* ------------------------------------------------------------- actions
RECURSIVE TransitionsMade(_, _)
TransitionsMade(col, n) ==
    IF n = 0 THEN 0 ELSE (Len(col[n].stageHistory) - 1) + TransitionsMade(col, n - 1)

\* what a finished fsm call leaves behind
Commit(w) ==
    /\ TransitionsMade(w.intents, Len(w.intents)) <= MaxTransitions
    /\ intents' = w.intents
    /\ inFlight' = inFlight \o w.started
    /\ UNCHANGED <<relations, executionThreshold, executionQueue, nextTaskId, now, rewards>>
    /\ UNCHANGED anomalyVars
    /\ UNCHANGED running

createIntent(stage, precision) ==
    /\ Len(intents) < MaxIntents
    /\ intents' = Append(intents, newIntent(stage, precision))
    /\ UNCHANGED <<relations, executionThreshold, executionQueue, inFlight, nextTaskId,
                   now, rewards>>
    /\ UNCHANGED anomalyVars
    /\ UNCHANGED running

\* the top-level calls, with what the caller gets back
CreateIntent(stage, precision) ==
    /\ createIntent(stage, precision)
    /\ last' = [NoCall EXCEPT !.op = "createIntent", !.id = Len(intents) + 1,
                              !.target = stage, !.weight = precision,
                              !.ret = Seen(newIntent(stage, precision))]

TransitionState(intentId, newState) ==
    LET w == transitionState(Call(intents), intentId, newState)
    IN  /\ Commit(w)
        /\ last' = [NoCall EXCEPT !.op = "transitionState", !.id = intentId,
                                  !.target = newState, !.err = w.err,
                                  !.days = DaysBefore(intentId),
                                  !.before = Seen(getById(intents, intentId)),
                                  !.ret = Seen(w.ret)]

EvaluateConfidence(intentId) ==
    LET w == evaluateConfidence(Call(intents), intentId)
    IN  /\ Commit(w)
        /\ last' = [NoCall EXCEPT !.op = "evaluateConfidence", !.id = intentId,
                                  !.err = w.err,
                                  !.days = DaysBefore(intentId),
                                  !.before = Seen(getById(intents, intentId)),
                                  !.ret = Seen(w.ret)]

AddEvidence(intentId, precisionWeight) ==
    LET w == addEvidence(Call(intents), intentId, precisionWeight)
    IN  /\ Commit(w)
        /\ last' = [NoCall EXCEPT !.op = "addEvidence", !.id = intentId,
                                  !.weight = precisionWeight, !.err = w.err,
                                  !.days = DaysBefore(intentId),
                                  !.before = Seen(getById(intents, intentId)),
                                  !.evaluated = Seen(evaluateConfidence(Call(intents), intentId).ret),
                                  !.ret = Seen(w.ret)]

\* a day goes by
PassDay ==
    /\ now < MaxDays
    /\ now' = now + 1
    /\ last' = NoCall
    /\ UNCHANGED <<intents, relations, executionThreshold, executionQueue, inFlight,
                   nextTaskId, rewards>>
    /\ UNCHANGED anomalyVars
    /\ UNCHANGED running

\* POST /api/relations, PUT /api/relations/:id: an edge between two records,
\* filed at some place of the directory listing
CreateRelation(sourceType, sourceId, targetId, weight, at) ==
    /\ Len(relations) < MaxRelations
    /\ relations' =
         LET r == [sourceType |-> sourceType, sourceId |-> sourceId,
                   targetType |-> "intent", targetId |-> targetId, weight |-> weight]
         IN  SubSeq(relations, 1, at - 1) \o <<r>> \o SubSeq(relations, at, Len(relations))
    /\ last' = NoCall
    /\ UNCHANGED <<intents, executionThreshold, executionQueue, inFlight, nextTaskId,
                   now, rewards>>
    /\ UNCHANGED anomalyVars
    /\ UNCHANGED running

buildExecutionPayload(call, taskId) ==
    [task_id |-> taskId, intent_source_id |-> call.id,
     confidence_trigger |-> OrDefault(call.confidence, Scale), status |-> "staged"]

removeAt(q, idx) == SubSeq(q, 1, idx - 1) \o SubSeq(q, idx + 1, Len(q))

\* variant: the payload is staged whatever the confidence
enqueueForExecutionAlways(k) ==
    /\ k \in DOMAIN inFlight
    /\ inFlight' = removeAt(inFlight, k)
    /\ executionQueue' =
          Append(executionQueue, buildExecutionPayload(inFlight[k], nextTaskId + 1))
    /\ nextTaskId' = nextTaskId + 1
    /\ UNCHANGED <<intents, relations, executionThreshold, now, rewards>>
    /\ UNCHANGED anomalyVars
    /\ UNCHANGED running

\* an enqueueForExecution call started by a DECISION transition runs to its end
enqueueForExecution(k) ==
    /\ k \in DOMAIN inFlight
    /\ inFlight' = removeAt(inFlight, k)
    /\ IF inFlight[k].confidence < executionThreshold
       THEN UNCHANGED <<executionQueue, nextTaskId>>
       ELSE /\ executionQueue' =
                  Append(executionQueue, buildExecutionPayload(inFlight[k], nextTaskId + 1))
            /\ nextTaskId' = nextTaskId + 1
    /\ UNCHANGED <<intents, relations, executionThreshold, now, rewards>>
    /\ UNCHANGED anomalyVars
    /\ UNCHANGED running

EnqueueForExecution(k) == enqueueForExecution(k) /\ last' = NoCall

\* variant: the head of the queue is taken for the match
findIndexHead(q, taskId) == IF q # <<>> THEN 1 ELSE 0

findIndex(q, taskId) ==
    IF \E i \in DOMAIN q : q[i].task_id = taskId
    THEN CHOOSE i \in DOMAIN q :
            q[i].task_id = taskId /\ \A j \in 1..(i - 1) : q[j].task_id # taskId
    ELSE 0

removeFromExecutionQueue(taskId) ==
    /\ executionQueue' = IF findIndex(executionQueue, taskId) # 0
                         THEN removeAt(executionQueue, findIndex(executionQueue, taskId))
                         ELSE executionQueue
    /\ UNCHANGED <<intents, relations, executionThreshold, inFlight, nextTaskId, now, rewards>>
    /\ UNCHANGED anomalyVars
    /\ UNCHANGED running

RemoveFromExecutionQueue(taskId) == removeFromExecutionQueue(taskId) /\ last' = NoCall

\* variant: no floor and no ceiling
rewardedUnclamped(threshold, rewardType) ==
    IF rewardType = 1 THEN threshold - ALPHA
    ELSE IF rewardType = -1 THEN threshold + ALPHA * 2
    ELSE threshold

\* variant: a rejection weighs as much as an acceptance
rewardedSymmetric(threshold, rewardType) ==
    IF rewardType = 1 THEN Max(THRESHOLD_FLOOR, threshold - ALPHA)
    ELSE IF rewardType = -1 THEN Min(THRESHOLD_CEILING, threshold + ALPHA)
    ELSE threshold

rewarded(threshold, rewardType) ==
    IF rewardType = 1 THEN Max(THRESHOLD_FLOOR, threshold - ALPHA)
    ELSE IF rewardType = -1 THEN Min(THRESHOLD_CEILING, threshold + ALPHA * 2)
    ELSE threshold

\* variant: processReward also takes the rewarded task off the queue
processRewardRemoving(taskId, rewardType) ==
    /\ rewards' = rewards + 1
    /\ executionThreshold' = rewarded(executionThreshold, rewardType)
    /\ executionQueue' = IF findIndex(executionQueue, taskId) # 0
                         THEN removeAt(executionQueue, findIndex(executionQueue, taskId))
                         ELSE executionQueue
    /\ UNCHANGED <<intents, relations, inFlight, nextTaskId, now>>
    /\ UNCHANGED anomalyVars
    /\ UNCHANGED running

processReward(taskId, rewardType) ==
    /\ rewards' = rewards + 1
    /\ executionThreshold' = rewarded(executionThreshold, rewardType)
    /\ UNCHANGED <<intents, relations, executionQueue, inFlight, nextTaskId, now>>
    /\ UNCHANGED anomalyVars
    /\ UNCHANGED running

ProcessReward(taskId, rewardType) ==
    /\ rewards < MaxRewards
    /\ processReward(taskId, rewardType)
    /\ last' = NoCall

\* ------------------------------------------------------------ anomaly gate
\* Lengths are counted in characters, hours in hours of the day; means, sums of
\* squared deviations, variances and scores are held in hundredths.
Abs(x) == IF x < 0 THEN 0 - x ELSE x

\* the prior getBaseline answers with while no baseline record exists
defaultBaseline ==
    [count |-> 0,
     length |-> [mean |-> PRIOR_LENGTH_MEAN, m2 |-> 0, variance |-> PRIOR_LENGTH_VARIANCE],
     hour |-> [mean |-> PRIOR_HOUR_MEAN, m2 |-> 0, variance |-> PRIOR_HOUR_VARIANCE]]

\* the largest r in lo..hi with r * r <= n
RECURSIVE SqrtBetween(_, _, _)
SqrtBetween(n, lo, hi) ==
    IF lo >= hi THEN lo
    ELSE LET mid == (lo + hi + 1) \div 2
         IN  IF mid * mid <= n THEN SqrtBetween(n, mid, hi) ELSE SqrtBetween(n, lo, mid - 1)

\* Math.sqrt(variance) || 1, in hundredths
stdDev(variance) ==
    LET root == SqrtBetween(variance * Scale, 0, 4095)
    IN  IF root = 0 THEN Scale ELSE root

zLength(b, currentLength) ==
    (Abs(currentLength * Scale - b.length.mean) * Scale) \div stdDev(b.length.variance)

\* distance on the 24 hour dial
timeDist(b, currentHour) ==
    Min(Abs(currentHour * Scale - b.hour.mean),
        HOURS_PER_DAY * Scale - Abs(currentHour * Scale - b.hour.mean))

zHour(b, currentHour) == (timeDist(b, currentHour) * Scale) \div stdDev(b.hour.variance)

\* variant: the hour alone is scored
combinedHourOnly(b, currentLength, currentHour) ==
    (zHour(b, currentHour) * HOUR_SHARE) \div Scale

combinedAnomalyScore(b, currentLength, currentHour) ==
    (zLength(b, currentLength) * LENGTH_SHARE + zHour(b, currentHour) * HOUR_SHARE) \div Scale

\* variant: the fixed score is compared with the threshold like any other
calculateAnomalyScoreCompared(b, threshold, currentLength, currentHour) ==
    IF b.count < MIN_SAMPLES
    THEN [score |-> FIXED_NOVEL_SCORE, isNovel |-> FIXED_NOVEL_SCORE > threshold]
    ELSE [score |-> combinedAnomalyScore(b, currentLength, currentHour),
          isNovel |-> combinedAnomalyScore(b, currentLength, currentHour) > threshold]

calculateAnomalyScore(b, threshold, currentLength, currentHour) ==
    IF b.count < MIN_SAMPLES
    THEN [score |-> FIXED_NOVEL_SCORE, isNovel |-> TRUE]
    ELSE [score |-> combinedAnomalyScore(b, currentLength, currentHour),
          isNovel |-> combinedAnomalyScore(b, currentLength, currentHour) > threshold]

\* one step of Welford's algorithm on one feature
welford(stat, val, count) ==
    LET delta == val * Scale - stat.mean
        mean == stat.mean + (delta \div count)
        delta2 == val * Scale - mean
        m2 == stat.m2 + ((delta * delta2) \div Scale)
    IN  [mean |-> mean, m2 |-> m2, variance |-> m2 \div count]

updateBaseline(b, lengthVal, hourVal) ==
    [count |-> b.count + 1,
     length |-> welford(b.length, lengthVal, b.count + 1),
     hour |-> welford(b.hour, hourVal, b.count + 1)]

\* saveBaseline: storage.create writes into database/baseline, and a write into
\* a directory that is not there throws; the error is caught and logged
saveBaseline(stored, b) == IF baselineDir THEN b ELSE stored

\* inputs of the bounded check: text lengths, hours of the day, what the
\* extraction collaborator answers
TextLengths == {4, 12, 60}
Hours == {9, 23}
AnomalyThresholds == {DEFAULT_ANOMALY_THRESHOLD, FIXED_NOVEL_SCORE + Scale}

\* one property of the extracted object: missing, an array, or a number
Missing == [kind |-> "missing", items |-> <<>>]
Listed(items) == [kind |-> "array", items |-> items]
NotAnArray == [kind |-> "number", items |-> <<>>]

\* an answer of the extraction collaborator
Answer(status, ps, col, rels) ==
    [status |-> status, persons |-> ps, intents |-> col, relations |-> rels]

AnIntent == [title |-> "t1", stage |-> "absent", precision |-> Absent]

Extractions ==
    {Answer("notJson", Missing, Missing, Missing),
     Answer("json", Missing, Listed(<<AnIntent>>), Missing)}

\* processRawInput, first part: the text is scored against the baseline
ScoreRawInput(rawLength, currentHour) ==
    /\ Len(pendingIngests) + Len(ingested) < MaxIngests
    /\ Len(pendingIngests) < MaxPending
    /\ pendingIngests' =
          Append(pendingIngests,
                 [length |-> rawLength,
                  hour |-> currentHour,
                  seen |-> baseline.count,
                  result |-> calculateAnomalyScore(baseline, anomalyThreshold,
                                                   rawLength, currentHour)])
    /\ last' = NoCall
    /\ UNCHANGED <<intents, relations, executionThreshold, executionQueue, inFlight,
                   nextTaskId, now, rewards, baseline, anomalyThreshold, ingested,
                   baselineDir, persons, running>>

\* The records one processRawInput call has written so far: the three
\* collections, the two maps from extracted names to ids, the error thrown and
\* how many records of each kind the call created.  'p-self-001' is person 0.
Ingesting(ps, col, rels) ==
    [persons |-> ps, intents |-> col, relations |-> rels,
     personMap |-> ("Self" :> 0) @@ ("Me" :> 0),
     intentMap |-> [t \in {} |-> 0],
     err |-> "none",
     created |-> [persons |-> 0, intents |-> 0, relations |-> 0]]

\* listAll('persons').find(ex => ex.name.toLowerCase() === p.name.toLowerCase()):
\* the place of the first person of that name, 0 for none, -1 for the TypeError
\* of a name that is undefined
RECURSIVE findPerson(_, _, _)
findPerson(ps, name, i) ==
    IF i > Len(ps) THEN 0
    ELSE IF ps[i] = "absent" \/ name = "absent" THEN -1
    ELSE IF ps[i] = name THEN i
    ELSE findPerson(ps, name, i + 1)

\* the persons of an extraction, found or created one by one
RECURSIVE walkPersons(_, _, _)
walkPersons(w, list, k) ==
    IF w.err # "none" \/ k > Len(list) THEN w
    ELSE LET name == list[k].name
             existing == findPerson(w.persons, name, 1)
         IN  IF name \in DOMAIN w.personMap THEN walkPersons(w, list, k + 1)
             ELSE IF existing = -1 THEN [w EXCEPT !.err = "TypeError"]
             ELSE IF existing > 0
             THEN walkPersons([w EXCEPT !.personMap = (name :> existing) @@ @], list, k + 1)
             ELSE walkPersons([w EXCEPT !.persons = Append(@, name),
                                        !.personMap = (name :> (Len(w.persons) + 1)) @@ @,
                                        !.created.persons = @ + 1],
                              list, k + 1)

\* the intents of an extraction, created one by one
RECURSIVE walkIntents(_, _, _)
walkIntents(w, list, k) ==
    IF k > Len(list) THEN w
    ELSE walkIntents(
            [w EXCEPT !.intents = Append(@, newIntent(list[k].stage,
                                            OrDefault(list[k].precision, EXTRACTED_PRIOR))),
                      !.intentMap = (list[k].title :> (Len(w.intents) + 1)) @@ @,
                      !.created.intents = @ + 1],
            list, k + 1)

\* the relations of an extraction: an edge from the person (or from the self)
\* to each intent the extraction created; the weight is stored as 'strength'
RECURSIVE walkRelations(_, _, _)
walkRelations(w, list, k) ==
    IF k > Len(list) THEN w
    ELSE LET r == list[k]
             sourceId == IF r.sourcePersonName \in DOMAIN w.personMap
                         THEN w.personMap[r.sourcePersonName] ELSE 0
         IN  IF r.targetIntentTitle \in DOMAIN w.intentMap
             THEN walkRelations(
                     [w EXCEPT !.relations =
                                   Append(@, [sourceType |-> "person", sourceId |-> sourceId,
                                              targetType |-> "intent",
                                              targetId |-> w.intentMap[r.targetIntentTitle],
                                              weight |-> Absent]),
                               !.created.relations = @ + 1],
                     list, k + 1)
             ELSE walkRelations(w, list, k + 1)

\* for (const x of value): a number cannot be iterated
iterate(w, value) == IF value.kind = "number" THEN [w EXCEPT !.err = "TypeError"] ELSE w

\* processRawInput from the answer of the collaborator on
persistExtracted(w, extracted) ==
    IF extracted.status = "httpError" THEN [w EXCEPT !.err = "LLM API Error"]
    ELSE IF extracted.status = "notJson"
    THEN [w EXCEPT !.err = "Failed to parse LLM JSON output"]
    ELSE LET w1 == IF iterate(w, extracted.persons).err # "none"
                   THEN iterate(w, extracted.persons)
                   ELSE walkPersons(w, extracted.persons.items, 1)
             w2 == IF w1.err # "none" THEN w1
                   ELSE IF iterate(w1, extracted.intents).err # "none"
                   THEN iterate(w1, extracted.intents)
                   ELSE walkIntents(w1, extracted.intents.items, 1)
         IN  IF w2.err # "none" THEN w2
             ELSE IF iterate(w2, extracted.relations).err # "none"
             THEN iterate(w2, extracted.relations)
             ELSE walkRelations(w2, extracted.relations.items, 1)

\* variant: the routine intent is created at the prior of extracted intents
logRoutineAtExtractedPrior(w) ==
    [w EXCEPT !.intents = Append(@, newIntent("absent", EXTRACTED_PRIOR)),
              !.created.intents = @ + 1]

\* the routine way: one intent from the text itself, one ROUTINE_LOG entry
logRoutine(w) ==
    [w EXCEPT !.intents = Append(@, newIntent("absent", Absent)),
              !.created.intents = @ + 1]

\* processRawInput, second part: the baseline is updated (within the hour of
\* the clock in which the text was scored), then the input is logged as a
\* routine intent or handed to the extraction collaborator; what the
\* collaborator answered is persisted and the text is bound to the inbox chain
RouteRawInput(k, extracted) ==
    /\ k \in DOMAIN pendingIngests
    /\ pendingIngests' = removeAt(pendingIngests, k)
    /\ baseline' = saveBaseline(baseline,
                                updateBaseline(baseline, pendingIngests[k].length,
                                               pendingIngests[k].hour))
    /\ LET novel == pendingIngests[k].result.isNovel
           w == IF novel THEN persistExtracted(Ingesting(persons, intents, relations), extracted)
                ELSE logRoutine(Ingesting(persons, intents, relations))
       IN  /\ persons' = w.persons
           /\ intents' = w.intents
           /\ relations' = w.relations
           /\ ingested' = Append(ingested, [length |-> pendingIngests[k].length,
                                            hour |-> pendingIngests[k].hour,
                                            seen |-> pendingIngests[k].seen,
                                            score |-> pendingIngests[k].result.score,
                                            novel |-> novel,
                                            answer |-> IF novel THEN extracted
                                                       ELSE Answer("unasked", Missing,
                                                                   Missing, Missing),
                                            created |-> w.created,
                                            logged |-> IF novel THEN 0 ELSE 1,
                                            noted |-> novel /\ w.err = "none",
                                            err |-> w.err])
           /\ last' = [NoCall EXCEPT !.op = "processRawInput", !.err = w.err]
    /\ UNCHANGED <<executionThreshold, executionQueue, inFlight, nextTaskId,
                   now, rewards, anomalyThreshold, baselineDir, running>>

Init ==
    /\ baseline = defaultBaseline
    /\ anomalyThreshold = DEFAULT_ANOMALY_THRESHOLD
    /\ pendingIngests = <<>>
    /\ ingested = <<>>
    /\ baselineDir = FALSE
    /\ persons = <<>>
    /\ intents = <<>>
    /\ relations = <<>>
    /\ executionThreshold = INITIAL_THRESHOLD
    /\ executionQueue = <<>>
    /\ inFlight = <<>>
    /\ nextTaskId = 0
    /\ now = 0
    /\ rewards = 0
    /\ last = NoCall
    /\ running = <<>>

\* the ids a caller may name: every stored intent and one id that resolves to nothing
IntentIds == 1..(Len(intents) + 1)

\* the task ids a client may name: every id handed out and one never handed out
TaskIds == 1..(nextTaskId + 1)

\* The kernel holding one intent (which a relation may make its own parent),
\* every call logged.
Next ==
    \/ \E stage \in StageHints, precision \in Precisions :
          intents = <<>> /\ CreateIntent(stage, precision)
    \/ \E id \in IntentIds, newState \in STATES : TransitionState(id, newState)
    \/ \E id \in IntentIds : EvaluateConfidence(id)
    \/ \E id \in IntentIds, pw \in EvidenceWeights : AddEvidence(id, pw)
    \/ PassDay
    \/ \E s \in DOMAIN intents, t \in DOMAIN intents, wgt \in EdgeWeights,
          at \in 1..(Len(relations) + 1) : CreateRelation("intent", s, t, wgt, at)
    \/ \E k \in DOMAIN inFlight : EnqueueForExecution(k)
    \/ \E taskId \in TaskIds : RemoveFromExecutionQueue(taskId)
    \/ \E taskId \in TaskIds, rewardType \in {1, -1} : ProcessReward(taskId, rewardType)

Spec == Init /\ [][Next]_vars

\* The intents and the relations between them, up to MaxIntents intents: the
\* stage machine and the propagator alone, the calls not logged.
NextDag ==
    \/ \E stage \in StageHints, precision \in Precisions :
          createIntent(stage, precision) /\ last' = NoCall
    \/ \E id \in DOMAIN intents, newState \in STATES :
          Commit(transitionState(Call(intents), id, newState)) /\ last' = NoCall
    \/ \E id \in DOMAIN intents :
          Commit(evaluateConfidence(Call(intents), id)) /\ last' = NoCall
    \/ \E id \in DOMAIN intents, pw \in EvidenceWeights :
          Commit(addEvidence(Call(intents), id, pw)) /\ last' = NoCall
    \/ PassDay
    \/ \E s \in DOMAIN intents, t \in DOMAIN intents, wgt \in EdgeWeights,
          at \in 1..(Len(relations) + 1) : CreateRelation("intent", s, t, wgt, at)
    \/ \E k \in DOMAIN inFlight : EnqueueForExecution(k)

SpecDag == Init /\ [][NextDag]_vars

\* As Spec, and the one intent may also be created with a precision below the
\* pruning level.
NextLow ==
    \/ Next
    \/ \E stage \in StageHints : intents = <<>> /\ CreateIntent(stage, PRUNE_BELOW - 1)

SpecLow == Init /\ [][NextLow]_vars

\* The staging queue and the parameter learner around one intent, on one day:
\* rewards enough to bring executionThreshold to either bound, the queue
\* operations logged.
RewardTypes == {1, -1, 0}

NextStaging ==
    \/ intents = <<>> /\ CreateIntent("absent", Absent)
    \/ \E id \in DOMAIN intents, pw \in EvidenceWeights : AddEvidence(id, pw)
    \/ \E id \in DOMAIN intents, newState \in {"DECISION", "REFINING"} :
          TransitionState(id, newState)
    \/ \E k \in DOMAIN inFlight :
          /\ enqueueForExecution(k)
          /\ last' = [NoCall EXCEPT !.op = "enqueueForExecution", !.id = inFlight[k].id,
                                    !.before = [stage |-> "DECISION",
                                                confidence |-> inFlight[k].confidence]]
    \/ \E taskId \in TaskIds :
          /\ removeFromExecutionQueue(taskId)
          /\ last' = [NoCall EXCEPT !.op = "removeFromExecutionQueue", !.id = taskId]
    \/ \E taskId \in TaskIds, rewardType \in RewardTypes :
          /\ rewards < MaxStagingRewards
          /\ processReward(taskId, rewardType)
          /\ last' = [NoCall EXCEPT !.op = "processReward", !.id = taskId,
                                    !.reward = rewardType,
                                    !.value = rewarded(executionThreshold, rewardType)]

SpecStaging == Init /\ [][NextStaging]_vars

\* The hand-off from the stage machine to the staging queue around one intent:
\* an enqueueForExecution call that was started is run to its end by the event
\* loop, whatever else the clients do meanwhile (weak fairness on its end).
FinishEnqueue(k) ==
    /\ enqueueForExecution(k)
    /\ last' = [NoCall EXCEPT !.op = "enqueueForExecution", !.id = inFlight[k].id,
                              !.before = [stage |-> "DECISION",
                                          confidence |-> inFlight[k].confidence]]

NextHandoff ==
    \/ intents = <<>> /\ CreateIntent("absent", Absent)
    \/ \E id \in DOMAIN intents, pw \in EvidenceWeights : AddEvidence(id, pw)
    \/ \E id \in DOMAIN intents, newState \in STATES : TransitionState(id, newState)
    \/ \E k \in DOMAIN inFlight : FinishEnqueue(k)
    \/ \E taskId \in TaskIds : RemoveFromExecutionQueue(taskId)
    \/ \E taskId \in TaskIds, rewardType \in {1, -1} : ProcessReward(taskId, rewardType)

SpecHandoff ==
    Init /\ [][NextHandoff]_vars /\ WF_vars(\E k \in DOMAIN inFlight : FinishEnqueue(k))

\* A child intent and its parent on one day, every call logged: the edge is
\* stored by POST /api/relations (no weight field) and may be given a weight,
\* 0 included, by PUT /api/relations/:id; its source is an intent or a person.
StoredEdgeWeights == {Absent, 0, 100}
SourceTypes == {"intent", "person"}

NextEdge ==
    \/ CreateIntent("absent", Absent)
    \/ \E id \in DOMAIN intents, newState \in STATES : TransitionState(id, newState)
    \/ \E id \in DOMAIN intents, pw \in EvidenceWeights : AddEvidence(id, pw)
    \/ \E st \in SourceTypes, s \in DOMAIN intents, t \in DOMAIN intents,
          wgt \in StoredEdgeWeights :
          s # t /\ CreateRelation(st, s, t, wgt, Len(relations) + 1)

SpecEdge == Init /\ [][NextEdge]_vars

\* Intents joined by edges in any shape, cycles and self-loops included, on one
\* day: each top-level call is logged with the number of calls it made.
CycleEdgeWeights == {100}
CyclePrecisions == {Absent, 50}

LinkIntents(s, t, wgt) ==
    /\ Len(relations) < MaxCycleEdges
    /\ relations' = Append(relations, [sourceType |-> "intent", sourceId |-> s,
                                       targetType |-> "intent", targetId |-> t,
                                       weight |-> wgt])
    /\ last' = NoCall
    /\ UNCHANGED <<intents, executionThreshold, executionQueue, inFlight, nextTaskId,
                   now, rewards>>
    /\ UNCHANGED anomalyVars
    /\ UNCHANGED running

Counted(w, op, intentId) ==
    /\ TransitionsMade(w.intents, Len(w.intents)) <= MaxCycleTransitions
    /\ intents' = w.intents
    /\ inFlight' = inFlight \o w.started
    /\ last' = [NoCall EXCEPT !.op = op, !.id = intentId, !.err = w.err,
                              !.transitions = w.transitions, !.evidences = w.evidences]
    /\ UNCHANGED <<relations, executionThreshold, executionQueue, nextTaskId, now, rewards>>
    /\ UNCHANGED anomalyVars
    /\ UNCHANGED running

NextCycle ==
    \/ \E precision \in CyclePrecisions :
          createIntent("absent", precision) /\ last' = NoCall
    \/ \E id \in DOMAIN intents, newState \in STATES :
          Counted(transitionState(Call(intents), id, newState), "transitionState", id)
    \/ \E id \in DOMAIN intents, pw \in EvidenceWeights :
          Counted(addEvidence(Call(intents), id, pw), "addEvidence", id)
    \/ \E s \in DOMAIN intents, t \in DOMAIN intents, wgt \in CycleEdgeWeights :
          LinkIntents(s, t, wgt)

SpecCycle == Init /\ [][NextCycle]_vars

\* ------------------------------------------------- interleaving requests
\* Requests are served on one event loop: a call runs until its next await
\* (a storage read or write) and other calls run in between.  A call in
\* `running` is at one of these places:
\*   "evaluate"   addEvidence, line 111: evaluateConfidence reads the intent
\*   "update"     addEvidence, lines 115-116: the posterior is written
\*   "read"       transitionState, line 51: the intent is read
\*   "write"      transitionState, line 69: the moved intent is written
\*   "propagate"  transitionState, line 77: evaluateConfidence reads the child
\*   "done"       the top-level call has returned or thrown
\* The intent has no edges and is evaluated on the day of its last update, so
\* a nested transitionState is the last thing its caller does.
\* newState: the stage asked for; target: the stage of the transitionState now
\* running; local: the call's own copy of the intent; pushed: history entries
\* the call has written; group, base: the first call of the calls it overlaps
\* with, and the intents when that one began.
SomeRunning == \E j \in DOMAIN running : running[j].pc # "done"

GroupOfNew ==
    IF SomeRunning
    THEN running[CHOOSE j \in DOMAIN running : running[j].pc # "done"].group
    ELSE Len(running) + 1

BaseOfNew ==
    IF SomeRunning
    THEN running[CHOOSE j \in DOMAIN running : running[j].pc # "done"].base
    ELSE intents

RaceFrame ==
    /\ last' = NoCall
    /\ UNCHANGED <<relations, executionThreshold, executionQueue, nextTaskId, now, rewards>>
    /\ UNCHANGED anomalyVars

StartAddEvidence(intentId, precisionWeight) ==
    /\ Len(running) < MaxRunning
    /\ running' = Append(running,
          [op |-> "addEvidence", id |-> intentId, weight |-> precisionWeight,
           newState |-> "-", target |-> "-", pc |-> "evaluate", local |-> NoIntent,
           err |-> "none", pushed |-> 0, group |-> GroupOfNew, base |-> BaseOfNew])
    /\ UNCHANGED <<intents, inFlight>>
    /\ RaceFrame

StartTransitionState(intentId, newState) ==
    /\ Len(running) < MaxRunning
    /\ running' = Append(running,
          [op |-> "transitionState", id |-> intentId, weight |-> 0,
           newState |-> newState, target |-> newState, pc |-> "read", local |-> NoIntent,
           err |-> "none", pushed |-> 0, group |-> GroupOfNew, base |-> BaseOfNew])
    /\ UNCHANGED <<intents, inFlight>>
    /\ RaceFrame

\* evaluateConfidence as addEvidence and propagateWeightUpwards call it, up to
\* its pruning test: the place the caller goes on from
afterEvaluate(c, intent, onward) ==
    IF intent = NoIntent \/ Terminal(intent.stage) THEN [c EXCEPT !.pc = "done"]
    ELSE IF intent.confidence < PRUNE_BELOW
    THEN [c EXCEPT !.pc = "read", !.target = "REFUTED"]
    ELSE [c EXCEPT !.pc = onward, !.local = intent]

EvaluateStep(k) ==
    /\ k \in DOMAIN running
    /\ running[k].pc = "evaluate"
    /\ running' = [running EXCEPT
                      ![k] = afterEvaluate(@, getById(intents, running[k].id), "update")]
    /\ UNCHANGED <<intents, inFlight>>
    /\ RaceFrame

UpdateStep(k) ==
    /\ k \in DOMAIN running
    /\ running[k].pc = "update"
    /\ LET c == running[k]
           local == [c.local EXCEPT !.confidence = posterior(@, c.weight)]
       IN  /\ intents' = update(intents, c.id, local)
           /\ running' = [running EXCEPT ![k] =
                 IF local.confidence >= EXECUTE_AT /\ local.stage # "DECISION"
                 THEN [c EXCEPT !.pc = "read", !.target = "DECISION", !.local = local]
                 ELSE IF local.confidence >= REFINE_AT /\ local.stage = "EXPLORATION"
                 THEN [c EXCEPT !.pc = "read", !.target = "REFINING", !.local = local]
                 ELSE [c EXCEPT !.pc = "done", !.local = local]]
    /\ UNCHANGED inFlight
    /\ RaceFrame

ReadStep(k) ==
    /\ k \in DOMAIN running
    /\ running[k].pc = "read"
    /\ LET c == running[k]
           intent == getById(intents, c.id)
       IN  running' = [running EXCEPT ![k] =
             IF intent = NoIntent THEN [c EXCEPT !.pc = "done", !.err = "NotFound"]
             ELSE IF ~validateTransition(intent.stage, c.target)
             THEN [c EXCEPT !.pc = "done", !.err = "InvalidTransition"]
             ELSE [c EXCEPT !.pc = "write",
                            !.local = [intent EXCEPT
                                          !.stage = c.target,
                                          !.stageHistory = pushHistory(@, c.target),
                                          !.confidence = forcedConfidence(c.target, @)]]]
    /\ UNCHANGED <<intents, inFlight>>
    /\ RaceFrame

WriteStep(k) ==
    /\ k \in DOMAIN running
    /\ running[k].pc = "write"
    /\ intents' = update(intents, running[k].id, running[k].local)
    /\ inFlight' = IF running[k].target = "DECISION"
                   THEN Append(inFlight, [id |-> running[k].id,
                                          confidence |-> running[k].local.confidence])
                   ELSE inFlight
    /\ running' = [running EXCEPT ![k].pc = "propagate", ![k].pushed = @ + 1]
    /\ RaceFrame

PropagateStep(k) ==
    /\ k \in DOMAIN running
    /\ running[k].pc = "propagate"
    /\ relations = <<>>
    /\ running' = [running EXCEPT
                      ![k] = afterEvaluate(@, getById(intents, running[k].id), "done")]
    /\ UNCHANGED <<intents, inFlight>>
    /\ RaceFrame

NextRace ==
    \/ intents = <<>> /\ createIntent("absent", Absent) /\ last' = NoCall
    \/ \E id \in DOMAIN intents, pw \in EvidenceWeights : StartAddEvidence(id, pw)
    \/ \E id \in DOMAIN intents, newState \in STATES : StartTransitionState(id, newState)
    \/ \E k \in DOMAIN running : EvaluateStep(k)
    \/ \E k \in DOMAIN running : UpdateStep(k)
    \/ \E k \in DOMAIN running : ReadStep(k)
    \/ \E k \in DOMAIN running : WriteStep(k)
    \/ \E k \in DOMAIN running : PropagateStep(k)

SpecRace == Init /\ [][NextRace]_vars

\* The anomaly gate in front of the kernel: raw inputs scored and routed, the
\* anomalyThreshold being whatever kernel-meta holds.  initStorage makes the
\* directories of COLLECTIONS, and 'baseline' is not one of them: the directory
\* database/baseline is there only where the data directory came with it.
InitAnomaly ==
    /\ baseline = defaultBaseline
    /\ anomalyThreshold \in AnomalyThresholds
    /\ pendingIngests = <<>>
    /\ ingested = <<>>
    /\ baselineDir \in BOOLEAN
    /\ persons = <<>>
    /\ intents = <<>>
    /\ relations = <<>>
    /\ executionThreshold = INITIAL_THRESHOLD
    /\ executionQueue = <<>>
    /\ inFlight = <<>>
    /\ nextTaskId = 0
    /\ now = 0
    /\ rewards = 0
    /\ last = NoCall
    /\ running = <<>>

NextAnomaly ==
    \/ \E rawLength \in TextLengths, currentHour \in Hours :
          ScoreRawInput(rawLength, currentHour)
    \/ \E k \in DOMAIN pendingIngests, extracted \in Extractions :
          RouteRawInput(k, extracted)

SpecAnomaly == InitAnomaly /\ [][NextAnomaly]_vars

\* ===================================================================== claims

\* The transition table as the specification prints it.
SpecifiedTable ==
    { <<"EXPLORATION", "REFINING">>, <<"EXPLORATION", "REFUTED">>, <<"EXPLORATION", "DECISION">>,
      <<"REFINING", "EXPLORATION">>, <<"REFINING", "DECISION">>, <<"REFINING", "REFUTED">>,
      <<"REFUTED", "EXPLORATION">>,
      <<"DECISION", "REFINING">> }

SpecifiedLegal(current, target) == current = target \/ <<current, target>> \in SpecifiedTable

\* a transitionState call that found its intent
TransitionCalled == last.op = "transitionState" /\ last.err # "NotFound"

C2_ExplorationToDecisionBlocked ==
    /\ (TransitionCalled /\ last.before.stage = "EXPLORATION" /\ last.target = "DECISION")
            => last.err = "InvalidTransition"
    /\ \A i \in DOMAIN intents : \A k \in 2..Len(intents[i].stageHistory) :
            intents[i].stageHistory[k] = "DECISION"
                => intents[i].stageHistory[k - 1] \in {"REFINING", "DECISION"}

C4_FailedTransitionChangesNothing ==
    [][ last'.op = "transitionState" =>
          /\ (last'.id \notin DOMAIN intents) <=> (last'.err = "NotFound")
          /\ (/\ last'.id \in DOMAIN intents
              /\ ~SpecifiedLegal(intents[last'.id].stage, last'.target))
                 <=> (last'.err = "InvalidTransition")
          /\ last'.err # "none" =>
                /\ intents' = intents
                /\ executionQueue' = executionQueue
                /\ inFlight' = inFlight ]_vars

\* C4 witness: a transition was rejected while a payload was staged.
C4_Witness ==
    /\ last.op = "transitionState"
    /\ last.err = "InvalidTransition"
    /\ Len(executionQueue) > 0
    /\ Len(intents) > 0

C6_RefutedHasZeroConfidence ==
    \A i \in DOMAIN intents : intents[i].stage = "REFUTED" => intents[i].confidence = 0

\* C7: right after a transitionState into DECISION the persisted confidence is
\* max(previous confidence, executionThreshold), so at least executionThreshold.
C7_DecisionMeetsThreshold ==
    (last.op = "transitionState" /\ last.err = "none" /\ last.target = "DECISION") =>
        /\ intents[last.id].confidence = Max(last.before.confidence, executionThreshold)
        /\ intents[last.id].confidence >= executionThreshold

IsPrefix(a, b) == Len(a) <= Len(b) /\ SubSeq(b, 1, Len(a)) = a

\* C8: every operation leaves each stageHistory a prefix of what it becomes;
\* createIntent yields one entry; each successful transitionState appends
\* exactly one entry, whose stage is the target stage.
C8_HistoryAppendOnly ==
    [][ /\ \A i \in DOMAIN intents :
              i \in DOMAIN intents' /\ IsPrefix(intents[i].stageHistory, intents'[i].stageHistory)
        /\ last'.op = "createIntent" => Len(intents'[last'.id].stageHistory) = 1
        /\ (last'.op = "transitionState" /\ last'.err = "none") =>
              intents'[last'.id].stageHistory = Append(intents[last'.id].stageHistory, last'.target)
      ]_vars

\* the posterior and the stage the specification gives addEvidence(c, w)
SpecifiedPosterior(c, w) == c + ((w * (Scale - c)) \div Scale)

SpecifiedStage(stage, c) ==
    IF c >= EXECUTE_AT THEN "DECISION"
    ELSE IF c >= REFINE_AT /\ stage = "EXPLORATION" THEN "REFINING"
    ELSE stage

\* C9: addEvidence(id, w) on a non-terminal intent with confidence c updated
\* less than a day ago leaves confidence c + w*(1 - c) and the stage DECISION if
\* that is >= 0.95, else REFINING if it is >= 0.70 and the stage was
\* EXPLORATION, else the stage it had.
C9_EvidenceUpdate ==
    (/\ last.op = "addEvidence"
     /\ last.before.stage \in {"EXPLORATION", "REFINING"}
     /\ last.days < 1) =>
        /\ intents[last.id].confidence = SpecifiedPosterior(last.before.confidence, last.weight)
        /\ intents[last.id].stage =
              SpecifiedStage(last.before.stage,
                             SpecifiedPosterior(last.before.confidence, last.weight))

C11_RaisedToThresholdIsStaged ==
    (/\ last.op = "addEvidence"
     /\ last.before.stage \in {"EXPLORATION", "REFINING"}
     /\ intents[last.id].confidence > last.before.confidence
     /\ intents[last.id].confidence >= executionThreshold) =>
        /\ intents[last.id].stage = "DECISION"
        /\ \E k \in DOMAIN inFlight :
              /\ inFlight[k].id = last.id
              /\ inFlight[k].confidence >= executionThreshold

\* C12: a successful transitionState(id, EXPLORATION) on a REFUTED intent leaves
\* the persisted intent in EXPLORATION, and an intent that is not REFUTED becomes
\* REFUTED only by a transitionState to REFUTED or by an evaluation that decays
\* it (a day or more after its last update) below the pruning level.
C12_ResurrectedStaysOut ==
    [][ /\ (/\ last'.op = "transitionState"
            /\ last'.err = "none"
            /\ last'.target = "EXPLORATION"
            /\ last'.before.stage = "REFUTED")
              => intents'[last'.id].stage = "EXPLORATION"
        /\ \A i \in DOMAIN intents :
              (intents[i].stage # "REFUTED" /\ intents'[i].stage = "REFUTED")
                => \/ (last'.op = "transitionState" /\ last'.id = i /\ last'.target = "REFUTED")
                   \/ (/\ daysPassed(intents[i]) >= 1
                       /\ decayed(intents[i].confidence, daysPassed(intents[i])) < PRUNE_BELOW)
      ]_vars

\* C13: evaluateConfidence on an intent in EXPLORATION or REFINING with positive
\* confidence, last updated one full day or more ago, leaves its persisted
\* confidence strictly lower than it was before the call.
C13_DecayStrictlyLowers ==
    (/\ last.op = "evaluateConfidence"
     /\ last.before.stage \in {"EXPLORATION", "REFINING"}
     /\ last.before.confidence > 0
     /\ last.days >= 1) =>
        intents[last.id].confidence < last.before.confidence

\* C14: when an evaluateConfidence call applies time decay to a non-terminal
\* intent and the decayed confidence is below 0.05, then on return the persisted
\* stage is REFUTED, the persisted confidence is 0 and exactly one entry, for
\* REFUTED, has been appended to the intent's stageHistory.
C14_DecayedBelowPruneIsRefuted ==
    [][ (/\ last'.op = "evaluateConfidence"
         /\ last'.id \in DOMAIN intents
         /\ intents[last'.id].stage \in {"EXPLORATION", "REFINING"}
         /\ daysPassed(intents[last'.id]) > 1
         /\ decayed(intents[last'.id].confidence, daysPassed(intents[last'.id])) < PRUNE_BELOW)
        => /\ intents'[last'.id].stage = "REFUTED"
           /\ intents'[last'.id].confidence = 0
           /\ intents'[last'.id].stageHistory = Append(intents[last'.id].stageHistory, "REFUTED")
      ]_vars

\* C14 witness: an intent created at the pruning level 0.05, evaluated two
\* days later, was decayed below it and pruned.
C14_Witness ==
    /\ last.op = "evaluateConfidence"
    /\ last.days > 1
    /\ last.before.stage = "EXPLORATION"
    /\ last.before.confidence >= PRUNE_BELOW
    /\ intents[last.id].stageHistory = <<"EXPLORATION", "REFUTED">>
    /\ intents[last.id].confidence = 0

\* C15: an enqueueForExecution call for an intent whose confidence is below the
\* current executionThreshold leaves the execution queue as it was (same
\* entries, same order, no task id handed out) and raises no error.
C15_BelowThresholdNotStaged ==
    [][ (/\ last'.op = "enqueueForExecution"
         /\ last'.before.confidence < executionThreshold)
        => /\ executionQueue' = executionQueue
           /\ nextTaskId' = nextTaskId
           /\ last'.err = "none"
      ]_vars

\* C15 witness: a call for an intent below the threshold has ended while a
\* payload staged earlier is still in the queue.
C15_Witness ==
    /\ last.op = "enqueueForExecution"
    /\ last.before.confidence < executionThreshold
    /\ Len(executionQueue) > 0

\* C16: removeFromExecutionQueue(taskId) leaves exactly the entries whose
\* task_id differs from taskId, in their order; with no matching entry the queue
\* is unchanged and nothing is thrown; a second call with the same id would
\* change nothing more.
C16_RemoveExactlyMatching ==
    [][ last'.op = "removeFromExecutionQueue" =>
          /\ executionQueue' = SelectSeq(executionQueue, LAMBDA e : e.task_id # last'.id)
          /\ (\A i \in DOMAIN executionQueue : executionQueue[i].task_id # last'.id)
                => executionQueue' = executionQueue
          /\ SelectSeq(executionQueue', LAMBDA e : e.task_id # last'.id) = executionQueue'
          /\ last'.err = "none"
      ]_vars

\* C16 witness: of two staged payloads the first was removed and the second
\* is what remains.
C16_Witness ==
    /\ last.op = "removeFromExecutionQueue"
    /\ last.id = 1
    /\ nextTaskId = 2
    /\ Len(executionQueue) = 1
    /\ executionQueue[1].task_id = 2

\* C17: in every reachable state executionThreshold lies in [0.85, 0.99]; it
\* is 0.95 before the first processReward.
C17_ThresholdInBounds ==
    /\ executionThreshold >= THRESHOLD_FLOOR
    /\ executionThreshold <= THRESHOLD_CEILING
    /\ rewards = 0 => executionThreshold = 95

\* C17 witness: an accepted reward arrived when ten earlier ones had already
\* brought the threshold to its floor.
C17_Witness ==
    /\ last.op = "processReward"
    /\ last.reward = 1
    /\ rewards > 10
    /\ executionThreshold = 85

\* C18: processReward(+1) sets executionThreshold to max(0.85, old - 0.01) and
\* processReward(-1) to min(0.99, old + 0.02): strictly lower, respectively
\* higher, unless it was at that bound, where it stays; the value returned is
\* the value persisted.
C18_RewardStep ==
    [][ last'.op = "processReward" =>
          /\ last'.reward = 1 =>
                /\ executionThreshold' = Max(85, executionThreshold - 1)
                /\ executionThreshold > 85 => executionThreshold' < executionThreshold
                /\ executionThreshold = 85 => executionThreshold' = executionThreshold
          /\ last'.reward = -1 =>
                /\ executionThreshold' = Min(99, executionThreshold + 2)
                /\ executionThreshold < 99 => executionThreshold' > executionThreshold
                /\ executionThreshold = 99 => executionThreshold' = executionThreshold
          /\ last'.value = executionThreshold'
      ]_vars

\* C18 witness: a third rejection in a row, at the ceiling.
C18_Witness ==
    /\ last.op = "processReward"
    /\ last.reward = -1
    /\ rewards = 3
    /\ last.value = 99
    /\ executionThreshold = 99

\* C19: while the baseline count is below 3, calculateAnomalyScore answers the
\* fixed score 99.0 with isNovel = TRUE for every text, hour and
\* anomalyThreshold; hence every input scored at a count below 3, and so each
\* of the first three inputs ingested, goes to extraction, never the routine way.
C19_FewSamplesAlwaysNovel ==
    /\ baseline.count < 3 =>
          \A len \in TextLengths, h \in Hours, thr \in AnomalyThresholds :
              calculateAnomalyScore(baseline, thr, len, h) = [score |-> 9900, isNovel |-> TRUE]
    /\ \A i \in DOMAIN pendingIngests :
          pendingIngests[i].seen < 3 =>
              pendingIngests[i].result = [score |-> 9900, isNovel |-> TRUE]
    /\ \A i \in DOMAIN ingested : (i <= 3 \/ ingested[i].seen < 3) => ingested[i].novel

\* C19 witness: with an anomalyThreshold above the fixed score, three inputs
\* went to extraction and the fourth, scored against three samples, was routine.
C19_Witness ==
    /\ anomalyThreshold > 9900
    /\ Len(ingested) = 4
    /\ \A i \in 1..3 : ingested[i].novel
    /\ ingested[4].seen = 3
    /\ ~ingested[4].novel

\* the shortest and the longest text the baseline was updated with
SampleLengths == {ingested[i].length : i \in DOMAIN ingested}

SampleMin == CHOOSE m \in SampleLengths : \A x \in SampleLengths : m <= x

SampleMax == CHOOSE m \in SampleLengths : \A x \in SampleLengths : m >= x

\* texts to score: the input lengths and some between and beyond them
ShortProbes == TextLengths \cup {8, 30}

LongProbes == {8, 24, 120, 250}

C21_CreatedAsGiven ==
    last.op = "createIntent" =>
        /\ last.id \in DOMAIN intents
        /\ last.ret = Seen(intents[last.id])
        /\ intents[last.id].stage =
              (IF last.target = "absent" THEN "EXPLORATION" ELSE last.target)
        /\ intents[last.id].confidence = (IF last.weight = Absent THEN 10 ELSE last.weight)
        /\ intents[last.id].stageHistory = << intents[last.id].stage >>

\* C22: when transitionState, addEvidence or evaluateConfidence returns an
\* intent, the stage and the confidence of the returned object are those of
\* the persisted record, also after an auto-transition, a pruning or an upward
\* propagation fired within the call.
C22_ReturnsPersisted ==
    (/\ last.op \in {"transitionState", "addEvidence", "evaluateConfidence"}
     /\ last.err = "none"
     /\ last.id \in DOMAIN intents) =>
        last.ret = Seen(intents[last.id])

\* C23: evaluateConfidence leaves an intent as it is (stage, confidence,
\* stageHistory) when the intent is in DECISION or REFUTED and when less than
\* one full day has gone by since its last update; it prunes an intent to
\* REFUTED only in a call that applied time decay.
C23_EvaluateFrame ==
    [][ (last'.op = "evaluateConfidence" /\ last'.id \in DOMAIN intents) =>
          /\ (\/ Terminal(intents[last'.id].stage)
              \/ daysPassed(intents[last'.id]) < 1)
                => /\ intents'[last'.id].stage = intents[last'.id].stage
                   /\ intents'[last'.id].confidence = intents[last'.id].confidence
                   /\ intents'[last'.id].stageHistory = intents[last'.id].stageHistory
          /\ (intents[last'.id].stage # "REFUTED" /\ intents'[last'.id].stage = "REFUTED")
                => daysPassed(intents[last'.id]) >= 1
      ]_vars

\* the number of DECISION entries among the entries of a history after the n-th
RECURSIVE DecisionsAfter(_, _)
DecisionsAfter(stageHistory, n) ==
    IF n >= Len(stageHistory) THEN 0
    ELSE (IF stageHistory[n + 1] = "DECISION" THEN 1 ELSE 0) + DecisionsAfter(stageHistory, n + 1)

\* a stage-machine call, seen as a step: it touches the queue not at all, and
\* starts one enqueueForExecution call for each DECISION entry it appended
NoEntryButByDecision ==
    [][ last'.op \in {"transitionState", "addEvidence", "evaluateConfidence"} =>
          /\ executionQueue' = executionQueue
          /\ nextTaskId' = nextTaskId
          /\ last'.id \in DOMAIN intents =>
                Len(inFlight') - Len(inFlight) =
                    DecisionsAfter(intents'[last'.id].stageHistory,
                                   Len(intents[last'.id].stageHistory))
      ]_vars

\* C24 as stated: every successful transitionState to DECISION whose resulting
\* confidence is at least the executionThreshold of that moment is eventually
\* followed by a new queue entry for it; a transition to another stage adds no
\* queue entry.
C24_DecisionEventuallyStaged ==
    /\ \A n \in 0..MaxTransitions :
          (/\ last.op = "transitionState" /\ last.err = "none" /\ last.target = "DECISION"
           /\ intents[last.id].confidence >= executionThreshold
           /\ nextTaskId = n)
             ~> (nextTaskId > n)
    /\ NoEntryButByDecision

\* C24 amended: every successful transitionState to DECISION starts exactly one
\* enqueueForExecution call for that intent with the resulting confidence; each
\* started call eventually ends; when it ends it appends exactly one entry
\* (intent_source_id that intent, status 'staged') if that confidence is at
\* least the executionThreshold read at that moment and nothing otherwise; a
\* transition to any other stage starts no call and adds no entry.
C24_HandoffCompletes ==
    /\ NoEntryButByDecision
    /\ [][ (last'.op = "transitionState" /\ last'.err = "none" /\ last'.target = "DECISION") =>
              inFlight' = Append(inFlight, [id |-> last'.id,
                                            confidence |-> intents'[last'.id].confidence])
         ]_vars
    /\ [][ last'.op = "enqueueForExecution" =>
              /\ Len(inFlight') = Len(inFlight) - 1
              /\ IF last'.before.confidence >= executionThreshold
                 THEN /\ Len(executionQueue') = Len(executionQueue) + 1
                      /\ SubSeq(executionQueue', 1, Len(executionQueue)) = executionQueue
                      /\ executionQueue'[Len(executionQueue')].intent_source_id = last'.id
                      /\ executionQueue'[Len(executionQueue')].status = "staged"
                      /\ \A i \in DOMAIN executionQueue :
                            executionQueue[i].task_id #
                                executionQueue'[Len(executionQueue')].task_id
                 ELSE executionQueue' = executionQueue
         ]_vars
    /\ (inFlight # <<>>) ~> (inFlight = <<>>)

\* C24 witness: the call started by a DECISION transition has ended and its
\* payload is the newest entry of the queue, behind one staged earlier.
C24_Witness ==
    /\ last.op = "enqueueForExecution"
    /\ last.before.confidence >= executionThreshold
    /\ inFlight = <<>>
    /\ Len(executionQueue) = 2
    /\ executionQueue[2].intent_source_id = last.id
    /\ executionQueue[2].task_id = nextTaskId
    /\ executionQueue[2].status = "staged"
    /\ intents[last.id].stage = "DECISION"

\* C25: an intent in DECISION whose confidence is below executionThreshold is
\* unstaged but re-evaluable: an addEvidence whose evidence brings its
\* confidence to executionThreshold or above persists that confidence and
\* starts the staging of a payload for it.
C25_UnstagedDecisionReevaluated ==
    [][ (/\ last'.op = "addEvidence"
         /\ last'.id \in DOMAIN intents
         /\ intents[last'.id].stage = "DECISION"
         /\ intents[last'.id].confidence < executionThreshold
         /\ SpecifiedPosterior(intents[last'.id].confidence, last'.weight) >= executionThreshold)
        => /\ intents'[last'.id].stage = "DECISION"
           /\ intents'[last'.id].confidence =
                 SpecifiedPosterior(intents[last'.id].confidence, last'.weight)
           /\ \E k \in DOMAIN inFlight' :
                 /\ k > Len(inFlight)
                 /\ inFlight'[k].id = last'.id
                 /\ inFlight'[k].confidence >= executionThreshold
      ]_vars

\* C26: after a successful transitionState of an intent C, every edge whose
\* target is C, whose source is another intent P and whose stored weight is w
\* (0 included) has given P the evidence C.confidence * w: a non-terminal P of
\* confidence p ends with p + c*w*(1 - p), a P in DECISION (or REFUTED) is left
\* as it was; if no edge to C has an intent for its source (a person's edge,
\* say), every other intent is left as it was.
C26_ParentsGetWeightedEvidence ==
    [][ (last'.op = "transitionState" /\ last'.err = "none") =>
          /\ \A k \in DOMAIN relations :
                (/\ relations[k].targetId = last'.id
                 /\ relations[k].sourceId # last'.id
                 /\ relations[k].sourceType = "intent") =>
                    IF Terminal(intents[relations[k].sourceId].stage)
                    THEN intents'[relations[k].sourceId] = intents[relations[k].sourceId]
                    ELSE relations[k].weight # Absent =>
                            intents'[relations[k].sourceId].confidence =
                                SpecifiedPosterior(
                                    intents[relations[k].sourceId].confidence,
                                    (intents'[last'.id].confidence * relations[k].weight)
                                        \div Scale)
          /\ (\A k \in DOMAIN relations :
                    relations[k].targetId = last'.id => relations[k].sourceType # "intent")
                => \A i \in DOMAIN intents : i # last'.id => intents'[i] = intents[i]
      ]_vars

\* is there a path of edges from intent a back to a
Reaches(a, b) ==
    \/ \E k \in DOMAIN relations : relations[k].sourceId = a /\ relations[k].targetId = b
    \/ \E k, m \in DOMAIN relations :
          /\ relations[k].sourceId = a
          /\ relations[k].targetId = relations[m].sourceId
          /\ relations[m].targetId = b

\* C27: a top-level transitionState or addEvidence returns on every graph of
\* edges between intents, cyclic or not: with n intents and e edges it enters
\* transitionState at most 2n + 1 times (below the top level every transition
\* moves an intent forward: EXPLORATION, REFINING, then DECISION or REFUTED)
\* and addEvidence at most (2n + 1) * e + 1 times.
C27_PropagationTerminates ==
    last.op \in {"transitionState", "addEvidence"} =>
        /\ last.transitions <= 2 * Len(intents) + 1
        /\ last.evidences <= (2 * Len(intents) + 1) * Len(relations) + 1

\* C27 witness: evidence given to one of two intents that are each other's
\* parent went round the cycle: four transitions, both intents in DECISION.
C27_Witness ==
    /\ last.op = "addEvidence"
    /\ Reaches(last.id, last.id)
    /\ \A k \in DOMAIN relations : relations[k].sourceId # relations[k].targetId
    /\ last.transitions = 4
    /\ last.evidences > 4
    /\ \A i \in DOMAIN intents : intents[i].stage = "DECISION"

\* a call run alone, from start to end, on the collection col
Applied(col, c) ==
    IF c.op = "addEvidence" THEN addEvidence(Call(col), c.id, c.weight)
    ELSE transitionState(Call(col), c.id, c.newState)

\* two calls run one after the other
Serial(col, first, second) == Applied(Applied(col, first).intents, second).intents

\* the two calls started last were in flight at once, overlapped with no other
\* call, and both have ended
LastTwoOverlappedAndEnded ==
    /\ Len(running) >= 2
    /\ running[Len(running)].group = Len(running) - 1
    /\ running[Len(running) - 1].group = Len(running) - 1
    /\ running[Len(running)].pc = "done"
    /\ running[Len(running) - 1].pc = "done"

\* C28: when two addEvidence calls, or an addEvidence and a transitionState, on
\* one intent were in flight at once, the persisted confidence after both have
\* ended is what running the two calls one after the other, in one of the two
\* orders, leaves.
C28_InterleavingIsSerial ==
    LET a == running[Len(running) - 1]
        b == running[Len(running)]
    IN  (/\ LastTwoOverlappedAndEnded
         /\ a.id = b.id
         /\ "addEvidence" \in {a.op, b.op}) =>
            intents[a.id].confidence \in
                { Serial(a.base, a, b)[a.id].confidence,
                  Serial(a.base, b, a)[a.id].confidence }

\* C29: when two transitionState calls on one intent were in flight at once and
\* both returned without error, the persisted stageHistory is the history from
\* before them with at least one entry appended for each, and its last entry is
\* the persisted stage.
C29_BothTransitionsRecorded ==
    LET a == running[Len(running) - 1]
        b == running[Len(running)]
    IN  (/\ LastTwoOverlappedAndEnded
         /\ a.id = b.id
         /\ a.op = "transitionState" /\ b.op = "transitionState"
         /\ a.err = "none" /\ b.err = "none") =>
            /\ IsPrefix(a.base[a.id].stageHistory, intents[a.id].stageHistory)
            /\ Len(intents[a.id].stageHistory) >= Len(a.base[a.id].stageHistory) + 2
            /\ intents[a.id].stageHistory[Len(intents[a.id].stageHistory)] = intents[a.id].stage

\* confidence * decayRate^days for the decayRate that kernel-meta holds
DecayedAtStoredRate(confidence, days) ==
    (confidence * IntPow(STORED_DECAY_RATE, days)) \div IntPow(Scale, days)

\* C30: an evaluateConfidence that applies time decay over d elapsed days
\* leaves the confidence the intent had times decayRate^d, for the decayRate
\* stored in SystemParameters (and 0, the intent being pruned, when that is
\* below the pruning level).
C30_DecayUsesStoredRate ==
    (/\ last.op = "evaluateConfidence"
     /\ last.before.stage \in {"EXPLORATION", "REFINING"}
     /\ last.days > 1) =>
        intents[last.id].confidence =
            (IF DecayedAtStoredRate(last.before.confidence, last.days) < PRUNE_BELOW
             THEN 0
             ELSE DecayedAtStoredRate(last.before.confidence, last.days))

\* C31: every processRawInput call, whichever way it went and whether or not
\* the extraction failed, adds one to the persisted baseline count: after k
\* ingestions on a store that had no baseline record, getBaseline answers count k.
C31_CountsEveryIngestion == baseline.count = Len(ingested)

\* the sum of f[1] .. f[n]
RECURSIVE SumTo(_, _)
SumTo(f, n) == IF n = 0 THEN 0 ELSE f[n] + SumTo(f, n - 1)

\* the texts' lengths and hours the baseline was updated with, and their squares
LengthSamples == [i \in DOMAIN ingested |-> ingested[i].length]

HourSamples == [i \in DOMAIN ingested |-> ingested[i].hour]

Squares(f) == [i \in DOMAIN f |-> f[i] * f[i]]

\* Fixed-point rounding: each Welford step rounds the mean down by less than
\* one hundredth, and the product of the two deltas by less than one hundredth
\* plus the rounding of the mean times the delta (at most 60 characters).
MeanSlack == 1
M2Slack == 61

\* stat holds the mean and the sum of squared deviations of the samples f, and
\* their quotient as the variance: k * mean = sum, k * m2 = k * sum of squares
\* - (sum)^2, each up to rounding
HoldsMoments(stat, f) ==
    LET k == Len(f)
        sum == SumTo(f, k)
        squares == SumTo(Squares(f), k)
    IN  /\ Abs(k * stat.mean - Scale * sum) <= k * k * MeanSlack
        /\ Abs(k * stat.m2 - Scale * (k * squares - sum * sum)) <= k * k * M2Slack
        /\ stat.variance = stat.m2 \div k
        /\ stat.variance >= 0

\* C32: after k >= 1 updateBaseline calls from the default prior, the stored
\* length mean is the arithmetic mean of the k lengths, m2 the sum of their
\* squared deviations from it and variance = m2 / k >= 0, whatever the prior
\* mean and variance were; likewise for the hour.
C32_WelfordMoments ==
    Len(ingested) >= 1 =>
        /\ baseline.count = Len(ingested)
        /\ HoldsMoments(baseline.length, LengthSamples)
        /\ HoldsMoments(baseline.hour, HourSamples)

\* the record of the processRawInput call that just returned
Ingested == ingested[Len(ingested)]

\* C33: an input scored as not novel (count >= 3 and score <= anomalyThreshold)
\* never reaches the extraction collaborator: the call creates exactly one
\* intent, in EXPLORATION at confidence 0.1, and one log entry, and no person
\* or relation; an input scored above the anomalyThreshold is sent to extraction.
C33_RoutineBypassesExtraction ==
    [][last'.op = "processRawInput" =>
          LET e == Ingested'
          IN  /\ (e.seen >= 3 /\ e.score <= anomalyThreshold) =>
                    /\ e.answer.status = "unasked"
                    /\ Len(intents') = Len(intents) + 1
                    /\ SubSeq(intents', 1, Len(intents)) = intents
                    /\ intents'[Len(intents')].stage = "EXPLORATION"
                    /\ intents'[Len(intents')].confidence = 10
                    /\ intents'[Len(intents')].stageHistory = <<"EXPLORATION">>
                    /\ e.logged = 1
                    /\ persons' = persons
                    /\ relations' = relations
              /\ e.score > anomalyThreshold => e.answer.status # "unasked"]_vars

\* C33 witness: the fourth input, scored against three samples at or below the
\* threshold, left one intent and one log entry and no call of the collaborator,
\* after three inputs that were sent to it.
C33_Witness ==
    /\ last.op = "processRawInput"
    /\ Len(ingested) = 4
    /\ \A i \in 1..3 : ingested[i].answer.status # "unasked"
    /\ Ingested.seen = 3
    /\ Ingested.score <= anomalyThreshold
    /\ Ingested.answer.status = "unasked"
    /\ Ingested.created = [persons |-> 0, intents |-> 1, relations |-> 0]
    /\ intents[Len(intents)].confidence = 10

\* The ingestion layer with every kind of answer the extraction collaborator
\* can give: no answer, no JSON, JSON by the schema of the prompt (with arrays
\* left out or not), JSON that is not by the schema.
Ann == [name |-> "Ann"]
Nameless == [name |-> "absent"]
AnnToIntent == [sourcePersonName |-> "Ann", targetIntentTitle |-> "t1"]

IngestLengths == {12}
IngestHours == {9}

AnswersBySchema ==
    {Answer("json", Missing, Missing, Missing),
     Answer("json", Missing, Listed(<<AnIntent>>), Missing),
     Answer("json", Listed(<<Ann>>), Missing, Missing),
     Answer("json", Listed(<<Ann>>), Listed(<<AnIntent>>), Listed(<<AnnToIntent>>))}

AnswersNotBySchema ==
    {Answer("httpError", Missing, Missing, Missing),
     Answer("notJson", Missing, Missing, Missing),
     Answer("json", Listed(<<Ann, Nameless>>), Missing, Missing),
     Answer("json", Missing, Listed(<<AnIntent>>), NotAnArray)}

NextIngest ==
    \/ \E rawLength \in IngestLengths, currentHour \in IngestHours :
          ScoreRawInput(rawLength, currentHour)
    \/ \E k \in DOMAIN pendingIngests, extracted \in AnswersBySchema \cup AnswersNotBySchema :
          RouteRawInput(k, extracted)

SpecIngest == InitAnomaly /\ [][NextIngest]_vars

NothingCreated == [persons |-> 0, intents |-> 0, relations |-> 0]

\* C34: when the collaborator's response is not parseable as the expected
\* schema, processRawInput fails with an error and the call has created no
\* intent, person or relation; a response that merely leaves out the persons,
\* intents or relations array is tolerated and does not fail.
C34_UnparseableCreatesNothing ==
    [][last'.op = "processRawInput" =>
          /\ Ingested'.answer \in AnswersNotBySchema =>
                /\ last'.err # "none"
                /\ Ingested'.created = NothingCreated
                /\ intents' = intents
                /\ persons' = persons
                /\ relations' = relations
          /\ Ingested'.answer \in AnswersBySchema => last'.err = "none"]_vars

\* The staging queue and the parameter learner when the write of an access-log
\* entry (storage.create('mcp-logs', ...)) may fail.
\* enqueueForExecution: the payload is pushed before the log entry is written,
\* and the write is inside the try block whose catch logs the error
enqueueForExecutionLogging(k, logWritten) == enqueueForExecution(k)

\* processReward: the log entry of an acceptance or a rejection is written
\* before kernel-meta is updated, outside any try block; a failed write is
\* thrown to the caller
processRewardLogging(taskId, rewardType, logWritten) ==
    /\ rewards' = rewards + 1
    /\ executionThreshold' = IF rewardType \in {1, -1} /\ ~logWritten
                             THEN executionThreshold
                             ELSE rewarded(executionThreshold, rewardType)
    /\ UNCHANGED <<intents, relations, executionQueue, inFlight, nextTaskId, now>>
    /\ UNCHANGED anomalyVars
    /\ UNCHANGED running

NextFaults ==
    \/ intents = <<>> /\ CreateIntent("absent", Absent)
    \/ \E id \in DOMAIN intents, pw \in EvidenceWeights : AddEvidence(id, pw)
    \/ \E id \in DOMAIN intents, newState \in {"DECISION", "REFINING"} :
          TransitionState(id, newState)
    \/ \E k \in DOMAIN inFlight, logWritten \in BOOLEAN :
          /\ enqueueForExecutionLogging(k, logWritten)
          /\ last' = [NoCall EXCEPT !.op = "enqueueForExecution", !.id = inFlight[k].id,
                                    !.before = [stage |-> "DECISION",
                                                confidence |-> inFlight[k].confidence]]
    \/ \E taskId \in TaskIds :
          /\ removeFromExecutionQueue(taskId)
          /\ last' = [NoCall EXCEPT !.op = "removeFromExecutionQueue", !.id = taskId]
    \/ \E taskId \in TaskIds, rewardType \in RewardTypes, logWritten \in BOOLEAN :
          /\ rewards < MaxStagingRewards
          /\ processRewardLogging(taskId, rewardType, logWritten)
          /\ last' = [NoCall EXCEPT
                         !.op = "processReward", !.id = taskId, !.reward = rewardType,
                         !.err = IF rewardType \in {1, -1} /\ ~logWritten
                                 THEN "WriteError" ELSE "none",
                         !.value = IF rewardType \in {1, -1} /\ ~logWritten THEN 0
                                   ELSE rewarded(executionThreshold, rewardType)]

SpecFaults == Init /\ [][NextFaults]_vars

\* C35: a failed access-log write never fails the operation nor loses its
\* state change: enqueueForExecution leaves the payload in the queue and the
\* intent in DECISION as stored, and processReward still persists and returns
\* the adjusted executionThreshold.
C35_LogFailureKeepsStateChange ==
    [][/\ last'.op = "enqueueForExecution" =>
             /\ last'.err = "none"
             /\ intents' = intents
             /\ last'.before.confidence >= executionThreshold =>
                   /\ Len(executionQueue') = Len(executionQueue) + 1
                   /\ executionQueue'[Len(executionQueue')].intent_source_id = last'.id
       /\ last'.op = "processReward" =>
             /\ last'.err = "none"
             /\ executionThreshold' = rewarded(executionThreshold, last'.reward)
             /\ last'.value = executionThreshold']_vars

\* C36: processReward changes nothing but executionThreshold: the execution
\* queue, the anomalyThreshold and every intent stay as they are (the caller
\* removes the task afterwards); and no other operation (transitionState,
\* addEvidence, evaluateConfidence, enqueueForExecution,
\* removeFromExecutionQueue) changes executionThreshold.
C36_RewardFrame ==
    [][/\ last'.op = "processReward" =>
             /\ executionQueue' = executionQueue
             /\ inFlight' = inFlight
             /\ anomalyThreshold' = anomalyThreshold
             /\ intents' = intents
             /\ relations' = relations
             /\ baseline' = baseline
       /\ executionThreshold' # executionThreshold => last'.op = "processReward"]_vars

\* C36 witness: a rejection raised the threshold while a payload was staged,
\* and the payload is still in the queue.
C36_Witness ==
    /\ last.op = "processReward"
    /\ last.reward = -1
    /\ executionThreshold = 97
    /\ executionQueue # <<>>
    /\ executionQueue[1].task_id = last.id

\* C37: in every state reached by operations run one after the other, every
\* intent's stageHistory is non-empty and the stage of its last entry is the
\* intent's current stage.
C37_HistoryEndsAtStage ==
    \A id \in DOMAIN intents :
        /\ intents[id].stageHistory # <<>>
        /\ intents[id].stageHistory[Len(intents[id].stageHistory)] = intents[id].stage

\* C37 witness: an intent with an edge to a parent went from EXPLORATION by
\* REFINING to DECISION and holds the three stages in its history.
C37_Witness ==
    \E id \in DOMAIN intents :
        /\ intents[id].stageHistory = <<"EXPLORATION", "REFINING", "DECISION">>
        /\ intents[id].stage = "DECISION"
        /\ \E k \in DOMAIN relations : relations[k].sourceId = id

\* C38: staging is idempotent per intent: the execution queue never holds more
\* than one payload for an intent_source_id, also after a repeated
\* transitionState(id, DECISION) and after DECISION -> REFINING -> DECISION
\* while the earlier payload still awaits approval or rejection.
C38_OnePayloadPerIntent ==
    \A i, j \in DOMAIN executionQueue :
        executionQueue[i].intent_source_id = executionQueue[j].intent_source_id => i = j

Staged(q) == {q[i].task_id : i \in DOMAIN q}

\* C40: each staged payload causes at most one adjustment of the threshold: a
\* reward for a taskId that is not, or no longer, in the execution queue (a
\* second reward for the same taskId included) leaves executionThreshold as it is.
C40_RewardOnlyForStaged ==
    [][(last'.op = "processReward" /\ last'.id \notin Staged(executionQueue)) =>
          executionThreshold' = executionThreshold]_vars

====
